---- MODULE Spec2Model ----
(***************************************************************************)
(* Model of the two CSV filtering utilities of kr-dict-json:               *)
(*   scripts/shortest_examples.py   (the length-based selector)            *)
(*   scripts/word_pairs_examples.py (the pair-phrase selector)             *)
(*                                                                         *)
(* A string is a sequence of one-character strings, a row is a sequence of *)
(* fields (strings), a file is a sequence of rows as csv.reader yields     *)
(* them and as csv.writer.writerow receives them.  Row indices are         *)
(* 0-based as in the code; TLA+ sequences are 1-based, so row idx of a     *)
(* file is rows[idx + 1].                                                  *)
(***************************************************************************)
EXTENDS Integers, Sequences, FiniteSets, TLC

VARIABLES
    tool,         \* which utility runs: "short" or "pairs"
    input_csv,    \* args.input_csv  as given on the command line
    output_csv,   \* args.output_csv as given on the command line
    input_path,   \* Path(args.input_csv)
    output_path,  \* the output Path main derives
    fs,           \* the file system: path -> [exists, rows]
    fs0,          \* history: the file system when the run started
    pc,           \* position of the run
    handles,      \* the file handles that are open
    lengths,      \* read_lengths: the list being built / returned
    n_keep,       \* main: len(lengths) // 2
    selected,     \* main: the set pick_indices returned
    idx,          \* position of the csv.reader of the current pass
    count,        \* write_selected: rows written
    written,      \* history: the rows handed to writer.writerow, in order
    picks,        \* history: how many times the selection set was built
    outOpened,    \* history: the output path was opened for writing
    failedAt,     \* history: the step that raised, "" when none did
    arg,          \* pure-function specifications: the call's input
    ret           \* pure-function specifications: the call's result

vars == <<tool, input_csv, output_csv, input_path, output_path, fs, fs0, pc,
          handles, lengths, n_keep, selected, idx, count, written, picks,
          outOpened, failedAt, arg, ret>>

runVars == <<tool, input_csv, output_csv, input_path, output_path, fs, fs0,
             handles, lengths, n_keep, selected, idx, count, written, picks,
             outOpened, failedAt>>

----------------------------------------------------------------------------
(* Bounds *)

MaxRows == 4      \* rows of an input file
MaxText == 5      \* characters of a column-0 value given to is_pair
MaxList == 4      \* entries of a lengths list given to pick_indices
MaxLength == 2    \* largest entry of such a lengths list
MaxArgLen == 3    \* tokens of a command-line path argument

Min(a, b) == IF a < b THEN a ELSE b

SeqsUpTo(S, n) == UNION {[1..k -> S] : k \in 0..n}

----------------------------------------------------------------------------
(* word_pairs_examples.py: is_pair *)

\* The characters of a column-0 value: a letter, the space, a tab, a newline.
Chars == {"a", " ", "\t", "\n"}

\* What str.strip() with no argument removes (among Chars).
Whitespace == {" ", "\t", "\n"}

RECURSIVE lstrip(_)
lstrip(s) ==
    IF s = <<>> THEN s
    ELSE IF Head(s) \in Whitespace THEN lstrip(Tail(s)) ELSE s

RECURSIVE rstrip(_)
rstrip(s) ==
    IF s = <<>> THEN s
    ELSE IF s[Len(s)] \in Whitespace THEN rstrip(SubSeq(s, 1, Len(s) - 1)) ELSE s

\* text.strip()
strip(s) == rstrip(lstrip(s))

\* cleaned.count(c)
RECURSIVE str_count(_, _)
str_count(s, c) ==
    IF s = <<>> THEN 0
    ELSE (IF Head(s) = c THEN 1 ELSE 0) + str_count(Tail(s), c)

\* A plausible slip: counting words instead of literal spaces
\* (len(cleaned.split()) == 2), so that any whitespace separates.
RECURSIVE ws_count(_)
ws_count(s) ==
    IF s = <<>> THEN 0
    ELSE (IF Head(s) \in Whitespace THEN 1 ELSE 0) + ws_count(Tail(s))

is_pair_words(text) ==
    LET cleaned == strip(text) IN ws_count(cleaned) = 1

\* A plausible slip: the strip() forgotten.
is_pair_nostrip(text) == str_count(text, " ") = 1

is_pair(text) ==
    LET cleaned == strip(text) IN str_count(cleaned, " ") = 1

----------------------------------------------------------------------------
(* shortest_examples.py: pick_indices *)

\* range(len(lengths))
range(n) == [k \in 1..n |-> k - 1]

\* A plausible slip: ties broken towards the later row.
KeyLessLate(ls, i, j) ==
    \/ ls[i + 1] < ls[j + 1]
    \/ ls[i + 1] = ls[j + 1] /\ i > j

\* key=lambda i: (lengths[i], i), compared as Python compares tuples
KeyLess(ls, i, j) ==
    \/ ls[i + 1] < ls[j + 1]
    \/ ls[i + 1] = ls[j + 1] /\ i < j

RECURSIVE InsertByKey(_, _, _)
InsertByKey(ls, x, s) ==
    IF s = <<>> THEN <<x>>
    ELSE IF KeyLess(ls, x, Head(s)) THEN <<x>> \o s
    ELSE <<Head(s)>> \o InsertByKey(ls, x, Tail(s))

RECURSIVE SortByKey(_, _)
SortByKey(ls, s) ==
    IF s = <<>> THEN <<>>
    ELSE InsertByKey(ls, Head(s), SortByKey(ls, Tail(s)))

\* sorted(range(len(lengths)), key=...)
sorted(ls) == SortByKey(ls, range(Len(ls)))

\* order[:n] for n >= 0 (main passes len(lengths) // 2, never a negative)
SliceTo(s, n) == SubSeq(s, 1, Min(n, Len(s)))

pick_indices(ls, n) ==
    LET order == sorted(ls)
        cut == SliceTo(order, n)
    IN {cut[k] : k \in 1..Len(cut)}

----------------------------------------------------------------------------
(* pathlib.Path as main uses it *)

\* A path argument is a sequence of tokens: the separator "/" or a piece of
\* a file name (never "." on its own, which Path drops).
Sep == "/"

RECURSIVE LeadingSeps(_)
LeadingSeps(s) ==
    IF s = <<>> \/ Head(s) # Sep THEN 0 ELSE 1 + LeadingSeps(Tail(s))

\* the components between separators, empty ones dropped
RECURSIVE SplitParts(_, _)
SplitParts(s, cur) ==
    IF s = <<>> THEN (IF cur = <<>> THEN <<>> ELSE <<cur>>)
    ELSE IF Head(s) = Sep
         THEN (IF cur = <<>> THEN <<>> ELSE <<cur>>) \o SplitParts(Tail(s), <<>>)
         ELSE SplitParts(Tail(s), Append(cur, Head(s)))

\* Path(s): POSIX keeps a root of exactly two slashes, any other run of
\* leading slashes is the root "/".
Path(s) ==
    LET n == LeadingSeps(s)
    IN [root  |-> IF n = 0 THEN "" ELSE IF n = 2 THEN "//" ELSE "/",
        parts |-> SplitParts(s, <<>>)]

\* p.parent: the path without its last component; a path with no component
\* is its own parent.
Parent(p) ==
    IF p.parts = <<>> THEN p
    ELSE [p EXCEPT !.parts = SubSeq(p.parts, 1, Len(p.parts) - 1)]

\* p / name, for a one-component relative name
Join(p, name) == [p EXCEPT !.parts = Append(p.parts, <<name>>)]

----------------------------------------------------------------------------
(* main: the command line and the two paths *)

NotGiven == [given |-> FALSE, s |-> <<>>]
Given(s) == [given |-> TRUE, s |-> s]

\* default="out/examples_rewrite2_csv/all.csv"
DefaultInput == <<"out", "/", "examples_rewrite2_csv", "/", "all.csv">>

\* argparse: the value of args.input_csv
InputString(a) == IF a.given THEN a.s ELSE DefaultInput

\* `if args.output_csv`: None and the empty string are both false
Truthy(a) == a.given /\ a.s # <<>>

DefaultName(t) == IF t = "short" THEN "short.csv" ELSE "pairs.csv"

\* A plausible slip: the default output placed in the working directory.
OutputPathCwd(t, inp, outArg) ==
    IF Truthy(outArg) THEN Path(outArg.s)
    ELSE Join(Path(<<>>), DefaultName(t))

OutputPath(t, inp, outArg) ==
    IF Truthy(outArg) THEN Path(outArg.s)
    ELSE Join(Parent(inp), DefaultName(t))

----------------------------------------------------------------------------
(* The file system *)

\* fs maps the path of every existing file to its rows.
Exists(f, p) == p \in DOMAIN f

\* q lies below p: p would have to be a directory
IsAncestor(p, q) ==
    /\ p.root = q.root
    /\ Len(p.parts) < Len(q.parts)
    /\ SubSeq(q.parts, 1, Len(p.parts)) = p.parts

\* p can name a regular file next to the files of E: it has a last
\* component, and neither it nor any file of E would have to be a directory.
FilePathOk(E, p) ==
    /\ p.parts # <<>>
    /\ \A q \in E : ~IsAncestor(p, q) /\ ~IsAncestor(q, p)

\* open(p, "w"): the file is created or truncated
Truncate(f, p) == [q \in DOMAIN f \cup {p} |-> IF q = p THEN <<>> ELSE f[q]]

\* a row appended to the file at p
AppendRow(f, p, row) == [f EXCEPT ![p] = Append(@, row)]

----------------------------------------------------------------------------
(* The inputs of a run *)

Tools == {"short", "pairs"}

\* Rows for the length-based selector: no field at all, an empty field,
\* and column-0 values of lengths 1, 1, 2 and 3.
ShortRows ==
    { <<>>,
      << <<>> >>,
      << <<"a">> >>,
      << <<"d">>, <<"x">> >>,
      << <<"b", "b">> >>,
      << <<"c", "c", "c">> >> }

\* Rows for the pair-phrase selector: no field, "a", "a b" (with a second
\* field), " a b ", "a  b", "a<TAB>b" and "a<TAB>b c".
PairRows ==
    { <<>>,
      << <<"a">> >>,
      << <<"a", " ", "b">>, <<"x">> >>,
      << <<" ", "a", " ", "b", " ">> >>,
      << <<"a", " ", " ", "b">> >>,
      << <<"a", "\t", "b">> >>,
      << <<"a", "\t", "b", " ", "c">> >> }

RowsOf(t) == IF t = "short" THEN ShortRows ELSE PairRows

\* The command lines under which every dataset is tried: the output path
\* left out, or given and naming the input file itself.
RunInput == <<"d", "/", "all.csv">>
RunArgs ==
    { <<Given(RunInput), NotGiven>>,
      <<Given(RunInput), Given(RunInput)>> }

\* The dataset under which every command line is tried.
ArgData(t) ==
    IF t = "short"
    THEN << << <<"b", "b">> >>, << <<"a">> >> >>
    ELSE << << <<"a", " ", "b">>, <<"x">> >>, << <<"a">> >> >>

\* The pieces of a path argument.
PathTokens == {Sep, "d"}
ArgStrings == SeqsUpTo(PathTokens, MaxArgLen)

\* argparse fills the positionals in order: output_csv is given only when
\* input_csv is.
CommandLines ==
    {<<NotGiven, NotGiven>>}
    \cup {<<Given(i), o>> : i \in ArgStrings,
                            o \in {NotGiven} \cup {Given(s) : s \in ArgStrings}}

\* What an output file left by an earlier run holds.
OldRows == << << <<"o", "l", "d">> >> >>

\* The paths a run of tool t under command line a can touch.
Candidates(t, a) ==
    LET inp == Path(InputString(a[1]))
    IN {inp, Join(Parent(inp), DefaultName(t))}
       \cup (IF a[2].given THEN {Path(a[2].s)} ELSE {})

\* The file systems the run can start in: any set of the candidate paths
\* that can be regular files together; the input file holds the dataset,
\* any other file what an earlier run left.
FileSystems(t, a, data) ==
    LET inp == Path(InputString(a[1]))
    IN { [p \in E |-> IF p = inp THEN data ELSE OldRows] :
         E \in {F \in SUBSET Candidates(t, a) : \A p \in F : FilePathOk(F, p)} }

NoPath == [root |-> "", parts |-> <<>>]

RunInit ==
    /\ tool \in Tools
    /\ \E a \in RunArgs \cup CommandLines :
          /\ input_csv = a[1]
          /\ output_csv = a[2]
          /\ \E data \in (IF a \in RunArgs
                          THEN SeqsUpTo(RowsOf(tool), MaxRows)
                          ELSE {ArgData(tool)}) :
                fs \in FileSystems(tool, a, data)
    /\ fs0 = fs
    /\ input_path = NoPath
    /\ output_path = NoPath
    /\ pc = "start"
    /\ handles = {}
    /\ lengths = <<>>
    /\ n_keep = 0
    /\ selected = {}
    /\ idx = 0
    /\ count = 0
    /\ written = <<>>
    /\ picks = 0
    /\ outOpened = FALSE
    /\ failedAt = ""

Init ==
    /\ RunInit
    /\ arg = <<>>
    /\ ret = <<>>

----------------------------------------------------------------------------
(* main, both tools: args = parser.parse_args() and the two paths *)

ParseArgs ==
    /\ pc = "start"
    /\ input_path' = Path(InputString(input_csv))
    /\ output_path' = OutputPath(tool, input_path', output_csv)
    /\ pc' = IF tool = "short" THEN "rl_open" ELSE "wp_open_in"
    /\ UNCHANGED <<tool, input_csv, output_csv, fs, fs0, handles, lengths,
                   n_keep, selected, idx, count, written, picks, outOpened,
                   failedAt, arg, ret>>

----------------------------------------------------------------------------
(* Opening and leaving the with blocks *)

InRows == fs[input_path]

\* The with statement leaves its block by an exception: every handle it
\* holds is closed and the exception ends the run.
Raise(where) ==
    /\ handles' = {}
    /\ failedAt' = where
    /\ pc' = "failed"

\* output_path.open("w") succeeds: the file is created or truncated
OpenOutput ==
    /\ FilePathOk(DOMAIN fs, output_path)
    /\ fs' = Truncate(fs, output_path)
    /\ handles' = handles \cup {"fout"}
    /\ outOpened' = TRUE
    /\ idx' = 0

\* writer.writerow(row): the row is appended to the output file
WriteRow(row) ==
    /\ fs' = AppendRow(fs, output_path, row)
    /\ written' = Append(written, row)

----------------------------------------------------------------------------
(* shortest_examples.py: read_lengths *)

\* A plausible slip: the output opened together with the input, as a
\* single-pass filter would.
RL_OpenWithOutput ==
    /\ pc = "rl_open"
    /\ Exists(fs, input_path)
    /\ fs' = Truncate(fs, output_path)
    /\ outOpened' = TRUE
    /\ handles' = {"f"}
    /\ lengths' = <<>>
    /\ idx' = 0
    /\ pc' = "rl_loop"
    /\ UNCHANGED <<tool, input_csv, output_csv, input_path, output_path, fs0,
                   n_keep, selected, count, written, picks, failedAt, arg, ret>>

\* path.open("r") succeeds
RL_Open ==
    /\ pc = "rl_open"
    /\ Exists(fs, input_path)
    /\ handles' = {"f"}
    /\ lengths' = <<>>
    /\ idx' = 0
    /\ pc' = "rl_loop"
    /\ UNCHANGED <<tool, input_csv, output_csv, input_path, output_path, fs,
                   fs0, n_keep, selected, count, written, picks, outOpened,
                   failedAt, arg, ret>>

\* path.open("r") raises: the input does not exist or cannot be opened
RL_OpenFail ==
    /\ pc = "rl_open"
    /\ ~Exists(fs, input_path)
    /\ Raise("open_input")
    /\ UNCHANGED <<tool, input_csv, output_csv, input_path, output_path, fs,
                   fs0, lengths, n_keep, selected, idx, count, written, picks,
                   outOpened, arg, ret>>

\* A plausible slip: a row without fields measured as one character.
RowLengthOne(row) == IF row = <<>> THEN 1 ELSE Len(row[1])

\* the length read_lengths records for a row
RowLength(row) == IF row = <<>> THEN 0 ELSE Len(row[1])

\* one turn of `for row in reader`
RL_Row ==
    /\ pc = "rl_loop"
    /\ idx < Len(InRows)
    /\ lengths' = Append(lengths, RowLength(InRows[idx + 1]))
    /\ idx' = idx + 1
    /\ UNCHANGED <<tool, input_csv, output_csv, input_path, output_path, fs,
                   fs0, pc, handles, n_keep, selected, count, written, picks,
                   outOpened, failedAt, arg, ret>>

\* the reader raises (a read or decoding error) inside the with block
RL_ReadError ==
    /\ pc = "rl_loop"
    /\ Raise("read_lengths")
    /\ UNCHANGED <<tool, input_csv, output_csv, input_path, output_path, fs,
                   fs0, lengths, n_keep, selected, idx, count, written, picks,
                   outOpened, arg, ret>>

\* the reader is exhausted: the with block closes f, lengths is returned
RL_Return ==
    /\ pc = "rl_loop"
    /\ idx = Len(InRows)
    /\ handles' = {}
    /\ pc' = "rl_done"
    /\ UNCHANGED <<tool, input_csv, output_csv, input_path, output_path, fs,
                   fs0, lengths, n_keep, selected, idx, count, written, picks,
                   outOpened, failedAt, arg, ret>>

----------------------------------------------------------------------------
(* shortest_examples.py: main, n_keep and selected *)

\* A plausible slip: the half rounded up.
HalfUp(n) == (n + 1) \div 2

\* len(lengths) // 2
Half(n) == n \div 2

Select ==
    /\ pc = "rl_done"
    /\ n_keep' = Half(Len(lengths))
    /\ selected' = pick_indices(lengths, n_keep')
    /\ picks' = picks + 1
    /\ pc' = "ws_open_in"
    /\ UNCHANGED <<tool, input_csv, output_csv, input_path, output_path, fs,
                   fs0, handles, lengths, idx, count, written, outOpened,
                   failedAt, arg, ret>>

----------------------------------------------------------------------------
(* shortest_examples.py: write_selected *)

\* count = 0; input_path.open("r") succeeds (the file read_lengths has just
\* read is still there: nothing else acts on the file system)
WS_OpenIn ==
    /\ pc = "ws_open_in"
    /\ Exists(fs, input_path)
    /\ count' = 0
    /\ handles' = handles \cup {"fin"}
    /\ pc' = "ws_open_out"
    /\ UNCHANGED <<tool, input_csv, output_csv, input_path, output_path, fs,
                   fs0, lengths, n_keep, selected, idx, written, picks,
                   outOpened, failedAt, arg, ret>>

WS_OpenOut ==
    /\ pc = "ws_open_out"
    /\ OpenOutput
    /\ pc' = "ws_loop"
    /\ UNCHANGED <<tool, input_csv, output_csv, input_path, output_path, fs0,
                   lengths, n_keep, selected, count, written, picks, failedAt,
                   arg, ret>>

\* output_path.open("w") raises (a directory, no parent directory, not
\* writable): the with statement closes fin
WS_OpenOutFail ==
    /\ pc = "ws_open_out"
    /\ Raise("open_output")
    /\ UNCHANGED <<tool, input_csv, output_csv, input_path, output_path, fs,
                   fs0, lengths, n_keep, selected, idx, count, written, picks,
                   outOpened, arg, ret>>

\* A plausible slip: the rows written in the reverse of the order read.
WS_RowReversed ==
    /\ pc = "ws_loop"
    /\ idx < Len(InRows)
    /\ LET row == InRows[idx + 1]
       IN IF idx \in selected
          THEN /\ fs' = [fs EXCEPT ![output_path] = <<row>> \o @]
               /\ written' = <<row>> \o written
               /\ count' = count + 1
          ELSE UNCHANGED <<fs, written, count>>
    /\ idx' = idx + 1
    /\ UNCHANGED <<tool, input_csv, output_csv, input_path, output_path, fs0,
                   pc, handles, lengths, n_keep, selected, picks, outOpened,
                   failedAt, arg, ret>>

\* one turn of `for idx, row in enumerate(reader)`
WS_Row ==
    /\ pc = "ws_loop"
    /\ idx < Len(InRows)
    /\ LET row == InRows[idx + 1]
       IN IF idx \in selected
          THEN /\ WriteRow(row)
               /\ count' = count + 1
          ELSE UNCHANGED <<fs, written, count>>
    /\ idx' = idx + 1
    /\ UNCHANGED <<tool, input_csv, output_csv, input_path, output_path, fs0,
                   pc, handles, lengths, n_keep, selected, picks, outOpened,
                   failedAt, arg, ret>>

\* the reader or the writer raises inside the with block
WS_IOError ==
    /\ pc = "ws_loop"
    /\ Raise("write_selected")
    /\ UNCHANGED <<tool, input_csv, output_csv, input_path, output_path, fs,
                   fs0, lengths, n_keep, selected, idx, count, written, picks,
                   outOpened, arg, ret>>

\* the reader is exhausted: the with block closes fin and fout
WS_Return ==
    /\ pc = "ws_loop"
    /\ idx = Len(InRows)
    /\ handles' = {}
    /\ pc' = "done"
    /\ UNCHANGED <<tool, input_csv, output_csv, input_path, output_path, fs,
                   fs0, lengths, n_keep, selected, idx, count, written, picks,
                   outOpened, failedAt, arg, ret>>

----------------------------------------------------------------------------
(* word_pairs_examples.py: main *)

\* input_path.open("r") succeeds
WP_OpenIn ==
    /\ pc = "wp_open_in"
    /\ Exists(fs, input_path)
    /\ handles' = handles \cup {"fin"}
    /\ pc' = "wp_open_out"
    /\ UNCHANGED <<tool, input_csv, output_csv, input_path, output_path, fs,
                   fs0, lengths, n_keep, selected, idx, count, written, picks,
                   outOpened, failedAt, arg, ret>>

\* A plausible slip: the output opened (and truncated) before the input.
WP_OpenInFailAfterOutput ==
    /\ pc = "wp_open_in"
    /\ ~Exists(fs, input_path)
    /\ fs' = Truncate(fs, output_path)
    /\ outOpened' = TRUE
    /\ Raise("open_input")
    /\ UNCHANGED <<tool, input_csv, output_csv, input_path, output_path, fs0,
                   lengths, n_keep, selected, idx, count, written, picks,
                   arg, ret>>

\* input_path.open("r") raises: the second context manager is never entered
WP_OpenInFail ==
    /\ pc = "wp_open_in"
    /\ ~Exists(fs, input_path)
    /\ Raise("open_input")
    /\ UNCHANGED <<tool, input_csv, output_csv, input_path, output_path, fs,
                   fs0, lengths, n_keep, selected, idx, count, written, picks,
                   outOpened, arg, ret>>

\* output_path.open("w") succeeds
WP_OpenOut ==
    /\ pc = "wp_open_out"
    /\ OpenOutput
    /\ pc' = "wp_loop"
    /\ UNCHANGED <<tool, input_csv, output_csv, input_path, output_path, fs0,
                   lengths, n_keep, selected, count, written, picks, failedAt,
                   arg, ret>>

\* A plausible slip: fin left open when the output cannot be opened.
WP_OpenOutFailLeak ==
    /\ pc = "wp_open_out"
    /\ failedAt' = "open_output"
    /\ pc' = "failed"
    /\ UNCHANGED <<tool, input_csv, output_csv, input_path, output_path, fs,
                   fs0, handles, lengths, n_keep, selected, idx, count,
                   written, picks, outOpened, arg, ret>>

\* output_path.open("w") raises: the with statement closes fin
WP_OpenOutFail ==
    /\ pc = "wp_open_out"
    /\ Raise("open_output")
    /\ UNCHANGED <<tool, input_csv, output_csv, input_path, output_path, fs,
                   fs0, lengths, n_keep, selected, idx, count, written, picks,
                   outOpened, arg, ret>>

\* one turn of `for row in reader`
WP_Row ==
    /\ pc = "wp_loop"
    /\ idx < Len(InRows)
    /\ LET row == InRows[idx + 1]
       IN IF row = <<>>
          THEN UNCHANGED <<fs, written>>
          ELSE IF is_pair(row[1])
               THEN WriteRow(row)
               ELSE UNCHANGED <<fs, written>>
    /\ idx' = idx + 1
    /\ UNCHANGED <<tool, input_csv, output_csv, input_path, output_path, fs0,
                   pc, handles, lengths, n_keep, selected, count, picks,
                   outOpened, failedAt, arg, ret>>

\* the reader or the writer raises inside the with block
WP_IOError ==
    /\ pc = "wp_loop"
    /\ Raise("pairs_loop")
    /\ UNCHANGED <<tool, input_csv, output_csv, input_path, output_path, fs,
                   fs0, lengths, n_keep, selected, idx, count, written, picks,
                   outOpened, arg, ret>>

\* the reader is exhausted: the with block closes fin and fout
WP_Return ==
    /\ pc = "wp_loop"
    /\ idx = Len(InRows)
    /\ handles' = {}
    /\ pc' = "done"
    /\ UNCHANGED <<tool, input_csv, output_csv, input_path, output_path, fs,
                   fs0, lengths, n_keep, selected, idx, count, written, picks,
                   outOpened, failedAt, arg, ret>>

----------------------------------------------------------------------------
(* A run of either tool *)

Next ==
    \/ ParseArgs
    \/ RL_Open \/ RL_OpenFail \/ RL_Row \/ RL_ReadError \/ RL_Return
    \/ Select
    \/ WS_OpenIn \/ WS_OpenOut \/ WS_OpenOutFail
    \/ WS_Row \/ WS_IOError \/ WS_Return
    \/ WP_OpenIn \/ WP_OpenInFail \/ WP_OpenOut \/ WP_OpenOutFail
    \/ WP_Row \/ WP_IOError \/ WP_Return

Spec == Init /\ [][Next]_vars

----------------------------------------------------------------------------
(* pick_indices and is_pair on their own *)

\* the variables of a run, at rest
NoRun ==
    /\ tool = "none"
    /\ input_csv = NotGiven
    /\ output_csv = NotGiven
    /\ input_path = NoPath
    /\ output_path = NoPath
    /\ fs = <<>>
    /\ fs0 = <<>>
    /\ handles = {}
    /\ lengths = <<>>
    /\ n_keep = 0
    /\ selected = {}
    /\ idx = 0
    /\ count = 0
    /\ written = <<>>
    /\ picks = 0
    /\ outOpened = FALSE
    /\ failedAt = ""

InitPick ==
    /\ NoRun
    /\ pc = "call"
    /\ \E ls \in SeqsUpTo(0..MaxLength, MaxList) :
          \E n \in 0..(MaxList + 1) : arg = <<ls, n>>
    /\ ret = {}

\* selected = pick_indices(lengths, n_keep)
PickCall ==
    /\ pc = "call"
    /\ ret' = pick_indices(arg[1], arg[2])
    /\ pc' = "returned"
    /\ UNCHANGED <<runVars, arg>>

SpecPick == InitPick /\ [][PickCall]_vars

InitIsPair ==
    /\ NoRun
    /\ pc = "call"
    /\ arg \in SeqsUpTo(Chars, MaxText)
    /\ ret = FALSE

\* is_pair(row[0])
IsPairCall ==
    /\ pc = "call"
    /\ ret' = is_pair(arg)
    /\ pc' = "returned"
    /\ UNCHANGED <<runVars, arg>>

SpecIsPair == InitIsPair /\ [][IsPairCall]_vars

----------------------------------------------------------------------------
(* What the properties speak of *)

Parsed == pc # "start"

\* the dataset: the rows of the input file when the run started
Data == IF Exists(fs0, input_path) THEN fs0[input_path] ELSE <<>>
N == Len(Data)

\* the output path names the input file
Aliased == input_path = output_path

\* the rows of the output file
Output == IF Exists(fs, output_path) THEN fs[output_path] ELSE <<>>

InSeq(x, s) == \E k \in 1..Len(s) : s[k] = x

Occurrences(x, s) == Cardinality({k \in 1..Len(s) : s[k] = x})

\* s is t with some entries left out
RECURSIVE IsSubseq(_, _)
IsSubseq(s, t) ==
    IF s = <<>> THEN TRUE
    ELSE IF t = <<>> THEN FALSE
    ELSE IF Head(s) = Head(t) THEN IsSubseq(Tail(s), Tail(t))
    ELSE IsSubseq(s, Tail(t))

\* Between its first and its last non-whitespace character, s holds exactly
\* one space character.
TrimmedHasOneSpace(s) ==
    LET solid == {i \in 1..Len(s) : s[i] \notin Whitespace}
    IN /\ solid # {}
       /\ LET lo == CHOOSE i \in solid : \A j \in solid : i <= j
              hi == CHOOSE i \in solid : \A j \in solid : j <= i
          IN Cardinality({i \in lo..hi : s[i] = " "}) = 1

\* the row has a column 0 that qualifies as a pair
Qualifies(row) == row # <<>> /\ TrimmedHasOneSpace(row[1])

\* the length of column 0 of row i (0-based) of the dataset, 0 without fields
DataLength(i) == IF Data[i + 1] = <<>> THEN 0 ELSE Len(Data[i + 1][1])

\* the rank of row i in the order by (length, index)
Rank(i) ==
    Cardinality({j \in 0..(N - 1) :
                    \/ DataLength(j) < DataLength(i)
                    \/ DataLength(j) = DataLength(i) /\ j < i})

----------------------------------------------------------------------------
(* C1 *)

HalfOfRowsWritten == count = N \div 2 /\ Len(Output) = N \div 2

----------------------------------------------------------------------------
(* C2 *)

\* C2: pick_indices(lengths, n_keep) returns n_keep row indices (all of
\* them when there are fewer), and every index it returns comes before
\* every index it leaves out in the order by (length, index).
C2_FirstNKeep ==
    pc = "returned" =>
        LET ls == arg[1]
            n == arg[2]
            all == 0..(Len(ls) - 1)
        IN /\ ret \subseteq all
           /\ Cardinality(ret) = Min(n, Len(ls))
           /\ \A i \in ret : \A j \in all \ ret :
                 \/ ls[i + 1] < ls[j + 1]
                 \/ ls[i + 1] = ls[j + 1] /\ i < j

\* rows of one length on both sides of the cut
C2_Witness ==
    /\ pc = "returned"
    /\ \E i \in ret : \E j \in (0..(Len(arg[1]) - 1)) \ ret :
          arg[1][i + 1] = arg[1][j + 1]
    /\ \E i \in ret : \E j \in (0..(Len(arg[1]) - 1)) \ ret : j < i

----------------------------------------------------------------------------
(* C3 *)

PairsOutputExact ==
    \A k \in 1..N : InSeq(Data[k], Output) <=> Qualifies(Data[k])

----------------------------------------------------------------------------
(* C4 *)

\* C4: for both tools, the rows of the output file are the rows handed to
\* the writer, unchanged, and they are a subsequence of the input rows.
C4_Subsequence ==
    outOpened => (Output = written /\ IsSubseq(Output, Data))

\* two different rows written, the second one with its untrimmed column 0
C4_Witness ==
    /\ tool = "pairs" /\ pc = "done"
    /\ Len(Output) = 2
    /\ Output[1] = << <<"a", " ", "b">>, <<"x">> >>
    /\ Output[2] = << <<" ", "a", " ", "b", " ">> >>

----------------------------------------------------------------------------
(* C5 *)

\* the rows without fields whose rank is below N // 2
EmptyKept == {i \in 0..(N - 1) : Data[i + 1] = <<>> /\ Rank(i) < N \div 2}

EmptyRowsNotPairs == tool = "pairs" => ~InSeq(<<>>, written)

EmptyRowsCountZero ==
    (tool = "short" /\ Parsed) =>
        \A k \in 1..Len(lengths) : Data[k] = <<>> => lengths[k] = 0

EmptyRowsWritten == Occurrences(<<>>, Output) = Cardinality(EmptyKept)

----------------------------------------------------------------------------
(* C6 *)

\* the input path's parent directory joined with the tool's file name
DefaultOutput ==
    LET dir == IF input_path.parts = <<>> THEN <<>>
               ELSE SubSeq(input_path.parts, 1, Len(input_path.parts) - 1)
        name == IF tool = "short" THEN "short.csv" ELSE "pairs.csv"
    IN [root |-> input_path.root, parts |-> dir \o << <<name>> >>]

\* the run writes to p and to no other file
WritesOnlyTo(p) ==
    /\ output_path = p
    /\ outOpened =>
          /\ Exists(fs, p) /\ fs[p] = written
          /\ \A q \in DOMAIN fs \ {p} : Exists(fs0, q) /\ fs[q] = fs0[q]

\* C6 as stated: without an output_csv argument the output is the input's
\* parent directory joined with short.csv / pairs.csv; with one, it is
\* exactly that path.
C6_GivenPathUsed ==
    Parsed => IF output_csv.given
              THEN WritesOnlyTo(Path(output_csv.s))
              ELSE WritesOnlyTo(DefaultOutput)

\* C6, amended: without an output_csv argument, or with an empty one, the
\* output is the input's parent directory joined with short.csv /
\* pairs.csv; with a non-empty one, it is exactly that path.
C6_OutputPath ==
    Parsed => IF output_csv.given /\ output_csv.s # <<>>
              THEN WritesOnlyTo(Path(output_csv.s))
              ELSE WritesOnlyTo(DefaultOutput)

\* an empty output_csv, the input in a directory, rows written
C6_Witness ==
    /\ pc = "done"
    /\ output_csv = Given(<<>>)
    /\ Len(input_path.parts) = 2
    /\ written # <<>>

----------------------------------------------------------------------------
(* C7 *)

\* a tab or a newline stands between two words of s
HasTabSeparator(s) ==
    \E i \in 1..Len(s) :
        /\ s[i] \in {"\t", "\n"}
        /\ \E j \in 1..(i - 1) : s[j] \notin Whitespace
        /\ \E j \in (i + 1)..Len(s) : s[j] \notin Whitespace

\* C7 as stated: is_pair rejects every value that has a tab or a newline
\* between words, whatever else the value contains.
C7_TabAlwaysRejected ==
    (pc = "returned" /\ HasTabSeparator(arg)) => ret = FALSE

\* C7, amended: a tab or a newline never counts as the space: is_pair
\* accepts a value that has a tab or a newline between words only when its
\* trimmed form also holds exactly one space character, and rejects it
\* when it holds none.
C7_TabNeverCounts ==
    (pc = "returned" /\ HasTabSeparator(arg)) =>
        /\ ret = TrimmedHasOneSpace(arg)
        /\ (\A i \in 1..Len(arg) : arg[i] # " ") => ret = FALSE

\* "a<TAB>a" is rejected
C7_Witness ==
    /\ pc = "returned"
    /\ arg = <<"a", "\t", "a">>
    /\ ret = FALSE

----------------------------------------------------------------------------
(* C8 *)

BuildingSelection == pc \in {"rl_open", "rl_loop", "rl_done"}
WritePass == pc \in {"ws_open_in", "ws_open_out", "ws_loop"}

\* the output was opened or written only after the one complete pass
BuiltBeforeOutput ==
    /\ picks <= 1
    /\ (outOpened \/ "fout" \in handles \/ written # <<>>) =>
          /\ picks = 1
          /\ Len(lengths) = N
          /\ \A i \in selected : i \in 0..(N - 1)
    /\ BuildingSelection => (~outOpened /\ written = <<>> /\ fs = fs0)

\* C8: in the length-based selector the selection set is built once, from
\* a complete pass over the input, before the output is opened or written;
\* nothing is written while it is being built, and the write pass does not
\* change it.
C8_BuiltOnceBeforeOutput ==
    [][tool = "short" =>
          /\ BuiltBeforeOutput'
          /\ WritePass => selected' = selected]_vars

\* a completed run that selected and wrote two rows
C8_Witness ==
    /\ tool = "short" /\ pc = "done"
    /\ picks = 1
    /\ Cardinality(selected) = 2
    /\ Len(written) = 2

----------------------------------------------------------------------------
(* C9 *)

\* C9: at most two handles are open, one on the input and one on the
\* output, and none is open once the run has ended, normally or by an error.
C9_HandlesClosed ==
    /\ Cardinality(handles) <= 2
    /\ Cardinality(handles \cap {"f", "fin"}) <= 1
    /\ handles \subseteq {"f", "fin", "fout"}
    /\ pc \in {"done", "failed"} => handles = {}

\* the output could not be opened after the input was
C9_Witness ==
    /\ pc = "failed"
    /\ failedAt = "open_output"
    /\ handles = {}

----------------------------------------------------------------------------
(* C10 *)

\* C10: the output is opened only while the input is open, and a run that
\* fails to open the input has not opened the output and has left every
\* file as it was.
C10_InputFirst ==
    /\ "fout" \in handles => "fin" \in handles
    /\ failedAt = "open_input" => (~outOpened /\ fs = fs0)

\* the input is missing and an earlier output file is there
C10_Witness ==
    /\ tool = "pairs"
    /\ failedAt = "open_input"
    /\ Exists(fs0, output_path)
    /\ fs[output_path] = OldRows

====
